---- MODULE Spec2Model ----
(***************************************************************************)
(* Model of the payment-check route handler                                *)
(*   src/my-app/app/api/check-payment/route.ts : GET                       *)
(* One invocation of GET is one behaviour. The upstream explorer API, the  *)
(* timers and the clock are the environment: their outcomes are chosen     *)
(* nondeterministically where the handler awaits them.                     *)
(*                                                                         *)
(* Values. A JavaScript value is a record with a tag t:                    *)
(*   [t |-> "undef"], [t |-> "null"], [t |-> "bool", v], [t |-> "num", v], *)
(*   [t |-> "str", v], [t |-> "list", v], [t |-> "obj", ...].              *)
(* A string is a sequence of TLA+ strings: one per character where the     *)
(* handler looks at characters (address, digits), one per word elsewhere.  *)
(* A number is [nan, num, exp], standing for num / 10^exp.                 *)
(***************************************************************************)
EXTENDS Integers, Sequences, FiniteSets, TLC

\* ------------------------------------------------------------------ bounds
\* Longest transaction list the upstream returns in the model.
MaxTxs == 11

\* ------------------------------------------------------- program constants
TransferTimeoutMs == 8000
BalanceTimeoutMs == 5000
RecentWindowMs == 3600000
MaxShown == 10
BalanceDecimals == 18

\* ------------------------------------------------------------ JS values
Undef == [t |-> "undef"]
JNull == [t |-> "null"]
JStr(s) == [t |-> "str", v |-> s]
JBool(b) == [t |-> "bool", v |-> b]
JNum(n) == [t |-> "num", v |-> n]
JList(l) == [t |-> "list", v |-> l]

\* JavaScript truthiness (the `!x`, `x || y`, `x ? a : b` tests of the handler).
Truthy(x) ==
  CASE x.t = "undef" -> FALSE
    [] x.t = "null" -> FALSE
    [] x.t = "bool" -> x.v
    [] x.t = "num" -> x.v # 0
    [] x.t = "str" -> x.v # << >>
    [] OTHER -> TRUE

\* x || d
OrElse(x, d) == IF Truthy(x) THEN x ELSE d

\* Property read data.<f>: undefined on anything that is not an object with f.
Field(x, f) == IF x.t = "obj" /\ f \in DOMAIN x THEN x[f] ELSE Undef

\* x === "1"
IsStrOne(x) == x.t = "str" /\ x.v = <<"1">>

\* ToString(x), as in `${x}` and in the argument of parseFloat, for a string or null.
Interp(x) == IF x.t = "null" THEN <<"n", "u", "l", "l">> ELSE x.v

\* ------------------------------------------------------------- numbers
Digits == {"0", "1", "2", "3", "4", "5", "6", "7", "8", "9"}

DigitVal(c) ==
  CASE c = "0" -> 0 [] c = "1" -> 1 [] c = "2" -> 2 [] c = "3" -> 3 [] c = "4" -> 4
    [] c = "5" -> 5 [] c = "6" -> 6 [] c = "7" -> 7 [] c = "8" -> 8 [] c = "9" -> 9

RECURSIVE Pow10(_)
Pow10(n) == IF n = 0 THEN 1 ELSE 10 * Pow10(n - 1)

NaN == [nan |-> TRUE, num |-> 0, exp |-> 0]
Num(n, e) == [nan |-> FALSE, num |-> n, exp |-> e]
Zero == Num(0, 0)

\* The one representation of a number: no trailing zero behind the point, so
\* that equal numbers are equal records.
RECURSIVE Norm(_)
Norm(x) ==
  IF x.nan THEN NaN
  ELSE IF x.num = 0 THEN Zero
  ELSE IF x.exp > 0 /\ x.num % 10 = 0 THEN Norm(Num(x.num \div 10, x.exp - 1))
  ELSE x

\* Length of the longest prefix of s made of digits.
RECURSIVE DigitPrefix(_)
DigitPrefix(s) ==
  IF s = << >> \/ Head(s) \notin Digits THEN 0 ELSE 1 + DigitPrefix(Tail(s))

RECURSIVE DigitsValue(_, _)
DigitsValue(s, acc) ==
  IF s = << >> THEN acc ELSE DigitsValue(Tail(s), 10 * acc + DigitVal(Head(s)))

\* Number.parseInt(s): the leading digits of s, NaN when there are none.
ParseInt(s) ==
  LET n == DigitPrefix(s)
  IN IF n = 0 THEN NaN ELSE Num(DigitsValue(SubSeq(s, 1, n), 0), 0)

\* Number.parseFloat(s): leading digits, then optionally "." and more digits;
\* NaN when s starts with neither.
ParseFloat(s) ==
  LET n == DigitPrefix(s)
      rest == SubSeq(s, n + 1, Len(s))
      m == IF rest # << >> /\ Head(rest) = "." THEN DigitPrefix(Tail(rest)) ELSE 0
      int == SubSeq(s, 1, n)
      frac == IF m = 0 THEN << >> ELSE SubSeq(rest, 2, m + 1)
  IN IF n = 0 /\ m = 0 THEN NaN ELSE Norm(Num(DigitsValue(int \o frac, 0), m))

\* a / Math.pow(10, d)
DivPow10(a, d) == IF a.nan \/ d.nan THEN NaN ELSE Norm(Num(a.num, a.exp + d.num))

Max(a, b) == IF a >= b THEN a ELSE b
Abs(x) == IF x < 0 THEN -x ELSE x

\* a + b
Add(a, b) ==
  IF a.nan \/ b.nan THEN NaN
  ELSE LET e == Max(a.exp, b.exp)
       IN Norm(Num(a.num * Pow10(e - a.exp) + b.num * Pow10(e - b.exp), e))

\* Math.abs(a - b) < 0.001 ; any comparison with NaN is false.
AbsDiffBelowMilli(a, b) ==
  IF a.nan \/ b.nan THEN FALSE
  ELSE LET e == Max(3, Max(a.exp, b.exp))
       IN Abs(a.num * Pow10(e - a.exp) - b.num * Pow10(e - b.exp)) < Pow10(e - 3)

\* ------------------------------------------------------------- strings
LowerChar(c) ==
  CASE c = "A" -> "a" [] c = "B" -> "b" [] c = "C" -> "c" [] OTHER -> c

\* String.prototype.toLowerCase
ToLowerCase(s) == [i \in DOMAIN s |-> LowerChar(s[i])]

\* String.prototype.includes, on word sequences.
Includes(s, kw) == \E i \in 1..Len(s) : i + Len(kw) - 1 <= Len(s) /\ SubSeq(s, i, i + Len(kw) - 1) = kw

\* ------------------------------------------------- the request (lines 5-7)
\* searchParams.get: null when the parameter is absent, else its string.
AddressParams == {JNull, JStr(<< >>), JStr(<<"A", "b">>)}
AmountParams == {JNull, JStr(<< >>), JStr(<<"1", ".", "5">>)}

\* Date.now() while the transactions are processed (line 149), in ms.
NowChoices == {10000000}

\* ------------------------------------------- the upstream's transactions
\* Explorer transactions as the upstream returns them: all fields strings.
TxTo == {<<"a", "B">>, <<"A", "c">>}
TxTimeStamp == {<<"6", "4", "0", "0">>, <<"6", "4", "0", "1">>}
TxValue == {<<"1", "5", "0", "0", "0">>, <<"1", "5", "0", "0", "5">>, <<"1", "5", "0", "2", "0">>}

Tx(h, to, ts, val) ==
  [hash |-> h, from |-> <<"s">>, to |-> to, value |-> val, tokenDecimal |-> <<"4">>,
   timeStamp |-> ts, confirmations |-> <<"7">>, blockNumber |-> <<"9">>]

\* The transaction kinds placed at the special position of a list.
TxKinds == {[to |-> to, ts |-> ts, val |-> val] : to \in TxTo, ts \in TxTimeStamp, val \in TxValue}
\* The kind filling the other positions: to the address, of the expected
\* amount, too old to match a payment.
FillerKinds ==
  {[to |-> <<"a", "B">>, ts |-> <<"6", "4", "0", "0">>, val |-> <<"1", "5", "0", "0", "0">>]}

\* A list of n transactions, hash = position, kind k at position p, f elsewhere.
TxList(n, p, k, f) ==
  [i \in 1..n |-> IF i = p THEN Tx(i, k.to, k.ts, k.val) ELSE Tx(i, f.to, f.ts, f.val)]

TxLists ==
  {<< >>} \cup UNION {{TxList(n, p, k, f) : p \in {1, n}, k \in TxKinds, f \in FillerKinds} : n \in 1..MaxTxs}

\* ------------------------------------------------ the upstream's bodies
\* data.result of a parsed body: a list, an error string, an object that is
\* no list, null, or absent.
Results ==
  {JList(l) : l \in TxLists}
    \cup {JStr(<<"Max", "rate", "limit", "reached">>), [t |-> "obj"], JNull, Undef}

Statuses == {JStr(<<"1">>), JStr(<<"0">>), Undef}

\* message follows status in the upstream's answers.
MessageOf(st) ==
  IF st = JStr(<<"1">>) THEN JStr(<<"OK">>)
  ELSE IF st = JStr(<<"0">>) THEN JStr(<<"NOTOK">>) ELSE Undef

\* What JSON.parse can return for a body that parses (line 70).
ParsedBodies ==
  {[t |-> "obj", status |-> st, message |-> MessageOf(st), result |-> r] : st \in Statuses, r \in Results}
    \cup {JNull, JBool(FALSE), JNum(0), JStr(<< >>), JStr(<<"o", "k">>), JNum(5)}

\* What the balance body can parse to (line 199).
BalanceBodies ==
  {[t |-> "obj", status |-> st, result |-> r] :
     st \in {JStr(<<"1">>), JStr(<<"0">>)}, r \in {JStr(<<"2", "5">>), Undef}}
    \cup {JNull}

\* What a rejected fetch throws (lines 84-95): Error objects by message, or a
\* value that is no Error.
FetchErrors ==
  {[isError |-> TRUE, message |-> <<"fetch", "failed">>],
   [isError |-> TRUE, message |-> <<"getaddrinfo", "ENOTFOUND", "host">>],
   [isError |-> TRUE, message |-> <<"socket", "hang", "up">>],
   [isError |-> FALSE, message |-> <<"thrown", "value">>]}

AbortError == [isError |-> TRUE, message |-> <<"This", "operation", "was", "aborted">>]
ParseError == [isError |-> TRUE, message |-> <<"Unexpected", "token">>]
HttpStatuses == {<<"403", "Forbidden">>, <<"500", "Internal", "Server", "Error">>}

\* ------------------------------------------------- endpoints (lines 35-38)
PagingTail == <<"page=1", "offset=20", "sort=desc", "apikey">>

Endpoint(host, addr) ==
  [t |-> "url", host |-> host, action |-> "tokentx", address |-> addr, tail |-> PagingTail]

apiEndpoints(addr) ==
  <<Endpoint("api.bscscan.com", addr), Endpoint("api-bsc.etherscan.io", addr)>>

\* ------------------------------------------------ the handler's pieces
\* Mutant of MissingParams: the amount is not checked.
MissingParamsAddressOnly(addr, amt) == ~Truthy(addr)

\* line 9: !address || !expectedAmount
MissingParams(addr, amt) == ~Truthy(addr) \/ ~Truthy(amt)

\* lines 10-21
MissingReport ==
  [status |-> 400, report |-> "missing", confirmed |-> FALSE,
   error |-> <<"Missing", "parameters">>]

\* lines 86-93: what the catch of a rejected fetch leaves in lastError.
RecordedFetchError(err) ==
  IF err.isError /\ (Includes(err.message, <<"fetch", "failed">>) \/ Includes(err.message, <<"ENOTFOUND">>))
  THEN <<"Network", "connectivity", "issue", "in", "serverless", "environment">>
  ELSE IF err.isError THEN err.message ELSE <<"Unknown", "fetch", "error">>

\* line 81
RecordedHttpError(st) == <<"HTTP">> \o st

\* line 76
RecordedParseError(err) ==
  <<"JSON", "parse", "error:">> \o (IF err.isError THEN err.message ELSE <<"Unknown">>)

\* `continue` in the for loop over the n endpoints (lines 45, 77, 82, 94).
AfterFailed(i, n) == [idx |-> i + 1, pc |-> IF i + 1 > n THEN "checkData" ELSE "loop"]

\* Mutant of AfterParsed: no break, the loop goes on to the next endpoint.
AfterParsedNoBreak(i, n) == AfterFailed(i, n)

\* `break` after a body parsed (line 73).
AfterParsed(i, n) == [idx |-> i, pc |-> "checkData"]

\* line 99: !data
NoData(d) == ~Truthy(d)

\* Mutant of AllFailedReport: the message does not carry lastError.
AllFailedReportWithoutLastError(le) ==
  [status |-> 200, report |-> "allFailed", confirmed |-> FALSE, balance |-> Zero,
   transactions |-> << >>, manualMode |-> TRUE,
   apiStatus |-> [status |-> JStr(<<"0">>),
                  message |-> JStr(<<"All", "API", "endpoints", "failed.", "Last", "error:", "Unknown">>),
                  result |-> JStr(<<"Manual", "verification", "required">>)]]

\* lines 102-127
AllFailedReport(le) ==
  [status |-> 200, report |-> "allFailed", confirmed |-> FALSE, balance |-> Zero,
   transactions |-> << >>, manualMode |-> TRUE,
   apiStatus |-> [status |-> JStr(<<"0">>),
                  message |-> JStr(<<"All", "API", "endpoints", "failed.", "Last", "error:">> \o Interp(le)),
                  result |-> JStr(<<"Manual", "verification", "required">>)]]

\* lines 136-140
ApiStatusOf(d) ==
  [status |-> OrElse(Field(d, "status"), JStr(<<"0">>)),
   message |-> OrElse(Field(d, "message"), JStr(<<"Unknown", "error">>)),
   result |-> OrElse(Field(d, "result"), JNull)]

\* line 142
ShouldProcess(d) ==
  IsStrOne(Field(d, "status")) /\ Truthy(Field(d, "result")) /\ Field(d, "result").t = "list"

\* line 147 (and 219)
TxAmount(tx) == DivPow10(ParseInt(tx.value), ParseInt(tx.tokenDecimal))

\* line 148 (and 220): the time of the transaction in ms; toISOString names it.
TxTimeMs(tx) == ParseInt(tx.timeStamp).num * 1000

\* line 149
IsRecent(tx, t) == t - TxTimeMs(tx) < RecentWindowMs

\* line 150
IsToAddress(tx, addr) == ToLowerCase(tx.to) = ToLowerCase(addr.v)

\* line 151
IsExpectedAmount(tx, amt) == AbsDiffBelowMilli(TxAmount(tx), ParseFloat(Interp(amt)))

\* lines 146-165
ProcessTx(tx, addr, amt, t) ==
  [hash |-> tx.hash, from |-> tx.from, to |-> tx.to, value |-> TxAmount(tx),
   timestamp |-> <<"iso", TxTimeMs(tx)>>, confirmations |-> tx.confirmations,
   isRecent |-> IsRecent(tx, t), isToAddress |-> IsToAddress(tx, addr),
   isExpectedAmount |-> IsExpectedAmount(tx, amt), blockNumber |-> tx.blockNumber]

\* line 146: data.result.map
ProcessedTxs(l, addr, amt, t) == [i \in 1..Len(l) |-> ProcessTx(l[i], addr, amt, t)]

\* Mutant of IsMatching: the age of the transaction is not looked at.
IsMatchingAnyAge(ptx) == ptx.isToAddress /\ ptx.isExpectedAmount

\* line 168
IsMatching(ptx) == ptx.isRecent /\ ptx.isToAddress /\ ptx.isExpectedAmount

MatchingOf(ptxs) == SelectSeq(ptxs, IsMatching)

\* line 176: filter(isToAddress).reduce(sum + value, 0)
IsIncoming(ptx) == ptx.isToAddress

RECURSIVE SumValues(_, _)
SumValues(ptxs, acc) ==
  IF ptxs = << >> THEN acc ELSE SumValues(Tail(ptxs), Add(acc, Head(ptxs).value))

TransferBalance(ptxs) == SumValues(SelectSeq(ptxs, IsIncoming), Zero)

\* Mutant of BalanceUrl: the balance is always asked of the first host.
BalanceUrlFirstHost(url) ==
  [url EXCEPT !.host = "api.bscscan.com", !.action = "tokenbalance", !.tail = <<"tag=latest">>]

\* line 182: replace("tokentx", "tokenbalance").split("&page=")[0] + "&tag=latest"
BalanceUrl(url) ==
  [url EXCEPT !.action = IF @ = "tokentx" THEN "tokenbalance" ELSE @, !.tail = <<"tag=latest">>]

\* lines 201-202
BalanceOf(bd) ==
  DivPow10(ParseInt(OrElse(Field(bd, "result"), JStr(<<"0">>)).v), Num(BalanceDecimals, 0))

\* Mutant of Shown: no slice, the whole list is shown.
ShownAll(l) == l

\* line 215: slice(0, 10)
Shown(l) == SubSeq(l, 1, IF Len(l) < MaxShown THEN Len(l) ELSE MaxShown)

\* lines 215-222
ShapeTx(tx) ==
  [hash |-> tx.hash, from |-> tx.from, to |-> tx.to, value |-> TxAmount(tx),
   timestamp |-> <<"iso", TxTimeMs(tx)>>, confirmations |-> tx.confirmations]

ShapedTxs(l) == [i \in 1..Len(Shown(l)) |-> ShapeTx(Shown(l)[i])]

\* lines 211-236
NormalReport(c, b, txs, st, m) ==
  [status |-> 200, report |-> "normal", confirmed |-> c, balance |-> b,
   transactions |-> txs, apiStatus |-> st, matchingTransactions |-> m]

\* lines 247-253
IsNetworkError(err) ==
  err.isError /\ (Includes(err.message, <<"fetch", "failed">>)
                  \/ Includes(err.message, <<"ENOTFOUND">>)
                  \/ Includes(err.message, <<"timeout">>))

\* lines 255-279
TopLevelReport(err) ==
  [status |-> 200, report |-> "topLevel", confirmed |-> FALSE, balance |-> Zero,
   transactions |-> << >>, manualMode |-> IsNetworkError(err),
   apiStatus |-> [status |-> JStr(<<"0">>),
                  message |-> JStr(IF IsNetworkError(err)
                                   THEN <<"Network", "connectivity", "issue", "in", "serverless", "environment">>
                                   ELSE <<"Request", "failed">>),
                  result |-> JStr(IF err.isError THEN err.message ELSE <<"Unknown", "error">>)]]

\* What line 215 throws when data.result is truthy and no list: a string has
\* slice and no map on its result, the others have no slice.
NotAFunction(r) ==
  [isError |-> TRUE,
   message |-> <<IF r.t = "str" THEN "data.result.slice(...).map" ELSE "data.result.slice",
                 "is", "not", "a", "function">>]

\* -------------------------------------------------------------- state
VARIABLES
  pc,                   \* where the handler is
  address,              \* line 6
  expectedAmount,       \* line 7
  now,                  \* Date.now() at line 149
  idx,                  \* position of the for loop in apiEndpoints (line 45)
  data,                 \* line 40
  workingEndpoint,      \* line 41
  lastError,            \* line 42
  timers,               \* the setTimeout timers armed so far (lines 50, 185)
  calls,                \* the outbound fetches issued so far (lines 52, 187)
  confirmed,            \* line 132
  matchingTransactions, \* line 133
  balance,              \* line 134
  apiStatus,            \* line 136
  thrown,               \* the error caught at line 240
  response              \* what GET returned

vars ==
  <<pc, address, expectedAmount, now, idx, data, workingEndpoint, lastError, timers,
    calls, confirmed, matchingTransactions, balance, apiStatus, thrown, response>>

NoResponse == [status |-> 0, report |-> "none"]
NoError == [isError |-> FALSE, message |-> << >>]
NoApiStatus == [status |-> Undef, message |-> Undef, result |-> Undef]

Init ==
  /\ pc = "start"
  /\ address \in AddressParams
  /\ expectedAmount \in AmountParams
  /\ now \in NowChoices
  /\ idx = 1
  /\ data = JNull
  /\ workingEndpoint = JNull
  /\ lastError = JNull
  /\ timers = << >>
  /\ calls = << >>
  /\ confirmed = FALSE
  /\ matchingTransactions = << >>
  /\ balance = Zero
  /\ apiStatus = NoApiStatus
  /\ thrown = NoError
  /\ response = NoResponse

\* The last armed timer / issued call belongs to the fetch being awaited.
SetLast(seq, f, val) == [seq EXCEPT ![Len(seq)] = [@ EXCEPT ![f] = val]]

NumEndpoints == Len(apiEndpoints(Interp(address)))

\* A transfer call failed: lastError is set and the loop continues (lines
\* 76-77, 81-82, 86-94). The call keeps what was recorded for it.
Failed(outcome, msg) ==
  /\ lastError' = JStr(msg)
  /\ calls' = [calls EXCEPT ![Len(calls)] = [@ EXCEPT !.outcome = outcome, !.recorded = JStr(msg)]]
  /\ idx' = AfterFailed(idx, NumEndpoints).idx
  /\ pc' = AfterFailed(idx, NumEndpoints).pc

\* lines 5-22
Validate ==
  /\ pc = "start"
  /\ IF MissingParams(address, expectedAmount)
     THEN /\ response' = MissingReport
          /\ pc' = "done"
     ELSE /\ response' = response
          /\ pc' = "loop"
  /\ UNCHANGED <<address, expectedAmount, now, idx, data, workingEndpoint, lastError, timers,
                 calls, confirmed, matchingTransactions, balance, apiStatus, thrown>>

\* lines 45-60: arm the 8 s timer and issue the fetch to the next endpoint.
TryEndpoint ==
  /\ pc = "loop"
  /\ idx <= NumEndpoints
  /\ timers' = Append(timers, [ms |-> TransferTimeoutMs, state |-> "armed"])
  /\ calls' = Append(calls, [url |-> apiEndpoints(Interp(address))[idx], outcome |-> "pending", recorded |-> JNull])
  /\ pc' = "fetching"
  /\ UNCHANGED <<address, expectedAmount, now, idx, data, workingEndpoint, lastError,
                 confirmed, matchingTransactions, balance, apiStatus, thrown, response>>

\* lines 62-64: the fetch resolved with response.ok; the timer is cleared.
FetchOk ==
  /\ pc = "fetching"
  /\ timers' = SetLast(timers, "state", "cleared")
  /\ pc' = "reading"
  /\ UNCHANGED <<address, expectedAmount, now, idx, data, workingEndpoint, lastError,
                 calls, confirmed, matchingTransactions, balance, apiStatus, thrown, response>>

\* lines 62, 79-82: the fetch resolved with a non-success status.
FetchHttpError ==
  /\ pc = "fetching"
  /\ \E st \in HttpStatuses :
       /\ timers' = SetLast(timers, "state", "cleared")
       /\ Failed("http", RecordedHttpError(st))
  /\ UNCHANGED <<address, expectedAmount, now, data, workingEndpoint,
                 confirmed, matchingTransactions, balance, apiStatus, thrown, response>>

\* lines 84-95: the fetch rejected; line 62 is skipped, the timer stays armed.
FetchRejected ==
  /\ pc = "fetching"
  /\ \E err \in FetchErrors :
       /\ Failed("rejected", RecordedFetchError(err))
  /\ UNCHANGED <<address, expectedAmount, now, data, workingEndpoint, timers,
                 confirmed, matchingTransactions, balance, apiStatus, thrown, response>>

\* lines 50, 84-95: the 8 s timer fired, controller.abort() rejected the fetch.
FetchAborted ==
  /\ pc = "fetching"
  /\ timers' = SetLast(timers, "state", "fired")
  /\ Failed("aborted", RecordedFetchError(AbortError))
  /\ UNCHANGED <<address, expectedAmount, now, data, workingEndpoint,
                 confirmed, matchingTransactions, balance, apiStatus, thrown, response>>

\* lines 65-73: the body was read and parsed.
BodyParsed ==
  /\ pc = "reading"
  /\ \E body \in ParsedBodies :
       /\ data' = body
       /\ workingEndpoint' = apiEndpoints(Interp(address))[idx]
       /\ calls' = SetLast(calls, "outcome", "parsed")
       /\ idx' = AfterParsed(idx, NumEndpoints).idx
       /\ pc' = AfterParsed(idx, NumEndpoints).pc
  /\ UNCHANGED <<address, expectedAmount, now, lastError, timers,
                 confirmed, matchingTransactions, balance, apiStatus, thrown, response>>

\* lines 70, 74-77: JSON.parse threw.
BodyUnparsable ==
  /\ pc = "reading"
  /\ Failed("unparsable", RecordedParseError(ParseError))
  /\ UNCHANGED <<address, expectedAmount, now, data, workingEndpoint, timers,
                 confirmed, matchingTransactions, balance, apiStatus, thrown, response>>

\* lines 65, 84-95: response.text() rejected; the outer catch takes it.
BodyUnreadable ==
  /\ pc = "reading"
  /\ \E err \in FetchErrors :
       /\ Failed("unreadable", RecordedFetchError(err))
  /\ UNCHANGED <<address, expectedAmount, now, data, workingEndpoint, timers,
                 confirmed, matchingTransactions, balance, apiStatus, thrown, response>>

\* lines 98-128
CheckData ==
  /\ pc = "checkData"
  /\ IF NoData(data)
     THEN /\ response' = AllFailedReport(lastError)
          /\ pc' = "done"
     ELSE /\ response' = response
          /\ pc' = "process"
  /\ UNCHANGED <<address, expectedAmount, now, idx, data, workingEndpoint, lastError, timers,
                 calls, confirmed, matchingTransactions, balance, apiStatus, thrown>>

\* lines 132-177
Process ==
  /\ pc = "process"
  /\ apiStatus' = ApiStatusOf(data)
  /\ IF ShouldProcess(data)
     THEN LET processedTxs == ProcessedTxs(Field(data, "result").v, address, expectedAmount, now)
          IN /\ matchingTransactions' = MatchingOf(processedTxs)
             /\ confirmed' = (Len(MatchingOf(processedTxs)) > 0)
             /\ balance' = TransferBalance(processedTxs)
     ELSE /\ matchingTransactions' = << >>
          /\ confirmed' = FALSE
          /\ balance' = Zero
  /\ pc' = "balance"
  /\ UNCHANGED <<address, expectedAmount, now, idx, data, workingEndpoint, lastError, timers,
                 calls, thrown, response>>

\* lines 179-194: arm the 5 s timer and issue the balance fetch.
StartBalance ==
  /\ pc = "balance"
  /\ IF Truthy(workingEndpoint)
     THEN /\ timers' = Append(timers, [ms |-> BalanceTimeoutMs, state |-> "armed"])
          /\ calls' = Append(calls, [url |-> BalanceUrl(workingEndpoint), outcome |-> "pending", recorded |-> JNull])
          /\ pc' = "balanceFetching"
     ELSE /\ UNCHANGED <<timers, calls>>
          /\ pc' = "shape"
  /\ UNCHANGED <<address, expectedAmount, now, idx, data, workingEndpoint, lastError,
                 confirmed, matchingTransactions, balance, apiStatus, thrown, response>>

\* lines 196-198: the balance fetch resolved with balanceResponse.ok.
BalanceOk ==
  /\ pc = "balanceFetching"
  /\ timers' = SetLast(timers, "state", "cleared")
  /\ pc' = "balanceReading"
  /\ UNCHANGED <<address, expectedAmount, now, idx, data, workingEndpoint, lastError,
                 calls, confirmed, matchingTransactions, balance, apiStatus, thrown, response>>

\* lines 196-198, 205: the balance fetch resolved with a non-success status.
BalanceHttpError ==
  /\ pc = "balanceFetching"
  /\ timers' = SetLast(timers, "state", "cleared")
  /\ calls' = SetLast(calls, "outcome", "http")
  /\ pc' = "shape"
  /\ UNCHANGED <<address, expectedAmount, now, idx, data, workingEndpoint, lastError,
                 confirmed, matchingTransactions, balance, apiStatus, thrown, response>>

\* lines 206-208: the balance fetch rejected; line 196 is skipped.
BalanceRejected ==
  /\ pc = "balanceFetching"
  /\ calls' = SetLast(calls, "outcome", "rejected")
  /\ pc' = "shape"
  /\ UNCHANGED <<address, expectedAmount, now, idx, data, workingEndpoint, lastError, timers,
                 confirmed, matchingTransactions, balance, apiStatus, thrown, response>>

\* lines 185, 206-208: the 5 s timer fired and aborted the balance fetch.
BalanceAborted ==
  /\ pc = "balanceFetching"
  /\ timers' = SetLast(timers, "state", "fired")
  /\ calls' = SetLast(calls, "outcome", "aborted")
  /\ pc' = "shape"
  /\ UNCHANGED <<address, expectedAmount, now, idx, data, workingEndpoint, lastError,
                 confirmed, matchingTransactions, balance, apiStatus, thrown, response>>

\* lines 199-204: the balance body parsed. Reading .status of null throws a
\* TypeError, which line 206 catches.
BalanceRead ==
  /\ pc = "balanceReading"
  /\ \E bd \in BalanceBodies :
       IF bd.t = "null"
       THEN /\ calls' = SetLast(calls, "outcome", "threw")
            /\ balance' = balance
       ELSE /\ calls' = [calls EXCEPT ![Len(calls)] =
                          [@ EXCEPT !.outcome = IF IsStrOne(Field(bd, "status")) THEN "one" ELSE "notOne",
                                    !.recorded = bd]]
            /\ balance' = IF IsStrOne(Field(bd, "status")) THEN BalanceOf(bd) ELSE balance
  /\ pc' = "shape"
  /\ UNCHANGED <<address, expectedAmount, now, idx, data, workingEndpoint, lastError, timers,
                 confirmed, matchingTransactions, apiStatus, thrown, response>>

\* lines 199, 206-208: balanceResponse.json() rejected.
BalanceUnparsable ==
  /\ pc = "balanceReading"
  /\ calls' = SetLast(calls, "outcome", "unparsable")
  /\ pc' = "shape"
  /\ UNCHANGED <<address, expectedAmount, now, idx, data, workingEndpoint, lastError, timers,
                 confirmed, matchingTransactions, balance, apiStatus, thrown, response>>

\* lines 211-239: build and return the report; line 215 throws when
\* data.result is truthy and has no slice(...).map.
Shape ==
  /\ pc = "shape"
  /\ LET r == Field(data, "result")
     IN IF Truthy(r) /\ r.t # "list"
        THEN /\ thrown' = NotAFunction(r)
             /\ response' = response
             /\ pc' = "catch"
        ELSE /\ thrown' = thrown
             /\ response' = NormalReport(confirmed, balance,
                                         IF Truthy(r) THEN ShapedTxs(r.v) ELSE << >>,
                                         apiStatus, matchingTransactions)
             /\ pc' = "done"
  /\ UNCHANGED <<address, expectedAmount, now, idx, data, workingEndpoint, lastError, timers,
                 calls, confirmed, matchingTransactions, balance, apiStatus>>

\* lines 240-279
CatchTop ==
  /\ pc = "catch"
  /\ response' = TopLevelReport(thrown)
  /\ pc' = "done"
  /\ UNCHANGED <<address, expectedAmount, now, idx, data, workingEndpoint, lastError, timers,
                 calls, confirmed, matchingTransactions, balance, apiStatus, thrown>>

\* lines 50, 185: a timer that was never cleared fires after its fetch has
\* settled; abort() on a settled fetch does nothing.
LateTimerFires ==
  /\ \E k \in 1..Len(timers) :
       /\ timers[k].state = "armed"
       /\ calls[k].outcome # "pending"
       /\ timers' = [timers EXCEPT ![k] = [@ EXCEPT !.state = "fired"]]
  /\ UNCHANGED <<pc, address, expectedAmount, now, idx, data, workingEndpoint, lastError,
                 calls, confirmed, matchingTransactions, balance, apiStatus, thrown, response>>

Next ==
  \/ Validate
  \/ TryEndpoint
  \/ FetchOk
  \/ FetchHttpError
  \/ FetchRejected
  \/ FetchAborted
  \/ BodyParsed
  \/ BodyUnparsable
  \/ BodyUnreadable
  \/ CheckData
  \/ Process
  \/ StartBalance
  \/ BalanceOk
  \/ BalanceHttpError
  \/ BalanceRejected
  \/ BalanceAborted
  \/ BalanceRead
  \/ BalanceUnparsable
  \/ Shape
  \/ CatchTop
  \/ LateTimerFires

Spec == Init /\ [][Next]_vars

\* ================================================================ claims
\* What the claims speak of, stated from the request, the upstream's answers
\* and the calls, not from the handler's own intermediate results.

Done == pc = "done"

TransferFailures == {"http", "rejected", "aborted", "unparsable", "unreadable"}

IsTransferCall(k) == calls[k].url.action = "tokentx"
IsBalanceCall(k) == calls[k].url.action = "tokenbalance"

\* Some endpoint returned a success status and a body that parsed.
SomeParsed == \E k \in 1..Len(calls) : IsTransferCall(k) /\ calls[k].outcome = "parsed"

\* Every candidate endpoint was tried and failed.
AllEndpointsFailed ==
  /\ Len(calls) >= NumEndpoints
  /\ \A k \in 1..NumEndpoints : IsTransferCall(k) /\ calls[k].outcome \in TransferFailures

AbsentOrEmpty(param) == param.t = "null" \/ (param.t = "str" /\ Len(param.v) = 0)

\* The upstream body is an object with a list result.
HasListResult == data.t = "obj" /\ data.result.t = "list"

\* A transaction of the upstream that is recent, to the address and of the
\* expected amount.
PaysTheRequest(tx) ==
  /\ now - ParseInt(tx.timeStamp).num * 1000 < 3600 * 1000
  /\ ToLowerCase(tx.to) = ToLowerCase(address.v)
  /\ AbsDiffBelowMilli(DivPow10(ParseInt(tx.value), ParseInt(tx.tokenDecimal)), ParseFloat(expectedAmount.v))

BodyHasPayment ==
  /\ HasListResult
  /\ data.status = JStr(<<"1">>)
  /\ \E i \in 1..Len(data.result.v) : PaysTheRequest(data.result.v[i])

\* A transaction as the report shows it.
Shown1(tx) ==
  [hash |-> tx.hash, from |-> tx.from, to |-> tx.to,
   value |-> DivPow10(ParseInt(tx.value), ParseInt(tx.tokenDecimal)),
   timestamp |-> <<"iso", ParseInt(tx.timeStamp).num * 1000>>,
   confirmations |-> tx.confirmations]

\* The sum of the amounts of the upstream transactions sent to the address,
\* 0 when the transactions were not processed.
RECURSIVE IncomingSum(_)
IncomingSum(l) ==
  IF l = << >> THEN Zero
  ELSE IF ToLowerCase(l[Len(l)].to) = ToLowerCase(address.v)
       THEN Add(IncomingSum(SubSeq(l, 1, Len(l) - 1)),
                DivPow10(ParseInt(l[Len(l)].value), ParseInt(l[Len(l)].tokenDecimal)))
       ELSE IncomingSum(SubSeq(l, 1, Len(l) - 1))

TransferDerivedBalance ==
  IF HasListResult /\ data.status = JStr(<<"1">>) THEN IncomingSum(data.result.v) ELSE Zero

\* C1: the status is 400 exactly when address or amount is missing or empty
\* and 200 otherwise, whatever the upstream does; a 400 response has
\* confirmed = false and no outbound call was issued.
C1_StatusByParams ==
  Done =>
    /\ response.status \in {200, 400}
    /\ response.status = 400 <=> (AbsentOrEmpty(address) \/ AbsentOrEmpty(expectedAmount))
    /\ response.status = 400 => (response.confirmed = FALSE /\ calls = << >>)

\* C1 witness: a 400 for a request that has its address and an empty amount.
C1_Witness ==
  Done /\ response.status = 400 /\ ~AbsentOrEmpty(address) /\ expectedAmount = JStr(<< >>)

\* C1 second case reached: a 200 after the handler's top-level catch ran.
C1_WitnessCaught == Done /\ response.status = 200 /\ response.report = "topLevel"

\* C2: when every candidate endpoint failed, the report is the HTTP 200
\* manual-mode report (confirmed false, balance 0, no transactions), its
\* message carries the error recorded for the last endpoint, and no balance
\* call was issued.
C2_AllFailedManual ==
  (Done /\ AllEndpointsFailed) =>
    /\ response.status = 200
    /\ response.confirmed = FALSE
    /\ response.balance = Zero
    /\ response.transactions = << >>
    /\ response.manualMode = TRUE
    /\ response.apiStatus.message
         = JStr(<<"All", "API", "endpoints", "failed.", "Last", "error:">> \o calls[NumEndpoints].recorded.v)
    /\ \A k \in 1..Len(calls) : ~IsBalanceCall(k)

\* C2 witness: both endpoints failed, in different ways.
C2_Witness ==
  /\ Done
  /\ AllEndpointsFailed
  /\ calls[1].outcome = "aborted"
  /\ calls[2].outcome = "unparsable"

\* C3: after an endpoint succeeded, confirmed is true exactly when the body
\* has status "1" and a list result holding, anywhere, a transaction that is
\* recent, to the address and within 0.001 of the expected amount.
C3_ConfirmedIffPayment ==
  (Done /\ SomeParsed) => (response.confirmed <=> BodyHasPayment)

\* C3 witness: confirmed by a transaction beyond the first 10 of the list.
C3_Witness ==
  /\ Done
  /\ response.report = "normal"
  /\ response.confirmed
  /\ Len(data.result.v) > MaxShown
  /\ \A i \in 1..MaxShown : ~PaysTheRequest(data.result.v[i])

\* C4: after an endpoint succeeded, the balance is the balance endpoint's
\* value when the balance call returned status "1", and the transfer-derived
\* balance in every other outcome; the balance call changes neither
\* confirmed nor transactions.
C4_BalanceRefined ==
  (Done /\ SomeParsed) =>
    /\ IF \E k \in 1..Len(calls) : IsBalanceCall(k) /\ calls[k].outcome = "one"
       THEN response.balance
              = DivPow10(ParseInt(OrElse(Field(calls[Len(calls)].recorded, "result"), JStr(<<"0">>)).v),
                         Num(18, 0))
       ELSE response.balance = TransferDerivedBalance
    /\ response.confirmed <=> BodyHasPayment

\* C5: the report never has more than 10 transactions; for a list result they
\* are the first min(10, length) transactions of the list, in order, without
\* the three derived booleans.
C5_AtMostTenShown ==
  Done =>
    /\ "transactions" \in DOMAIN response => Len(response.transactions) <= 10
    /\ (SomeParsed /\ HasListResult) =>
         /\ Len(response.transactions) = (IF Len(data.result.v) < 10 THEN Len(data.result.v) ELSE 10)
         /\ \A i \in 1..Len(response.transactions) :
              response.transactions[i] = Shown1(data.result.v[i])

\* C5 witness: a list longer than 10 was returned and 10 are shown.
C5_Witness ==
  /\ Done
  /\ HasListResult
  /\ Len(data.result.v) > 10
  /\ Len(response.transactions) = 10

\* C6: the transfer calls go to the endpoints in list order, each at most
\* once; a call to endpoint k+1 exists only after the call to endpoint k
\* failed; a failed call leads to the next endpoint (or, after the last one,
\* to the check of data), never to the top-level catch; after a parsed body
\* no further endpoint is contacted and workingEndpoint is that endpoint.
C6_Fallback ==
  /\ \A k \in 1..Len(calls) :
       IsTransferCall(k) =>
         /\ k <= NumEndpoints
         /\ calls[k].url = apiEndpoints(address.v)[k]
         /\ timers[k].ms = 8000
         /\ k > 1 => calls[k - 1].outcome \in TransferFailures
         /\ calls[k].outcome \in TransferFailures =>
              IF k < NumEndpoints
              THEN \/ (pc = "loop" /\ idx = k + 1 /\ Len(calls) = k)
                   \/ (Len(calls) > k /\ IsTransferCall(k + 1))
              ELSE pc \in {"checkData", "done"} /\ response.report # "topLevel"
         /\ calls[k].outcome = "parsed" =>
              /\ workingEndpoint = calls[k].url
              /\ \A j \in (k + 1)..Len(calls) : ~IsTransferCall(j)
  /\ workingEndpoint # JNull =>
       \E k \in 1..Len(calls) : calls[k].outcome = "parsed" /\ calls[k].url = workingEndpoint

\* C6 witness: the first endpoint failed, the second one parsed and is the
\* working endpoint.
C6_Witness ==
  /\ Done
  /\ Len(calls) >= 2
  /\ calls[1].outcome \in TransferFailures
  /\ calls[2].outcome = "parsed"
  /\ workingEndpoint = apiEndpoints(address.v)[2]

\* C7: never two outbound calls in flight; at most one balance call, issued
\* only right after a transfer call that parsed, with a remembered working
\* endpoint and to its host; and once the handler is past the check of data
\* and the processing, the balance call has been issued whatever the status
\* of the upstream body.
C7_SequentialCalls ==
  /\ Cardinality({k \in 1..Len(calls) : calls[k].outcome = "pending"}) <= 1
  /\ Cardinality({k \in 1..Len(calls) : IsBalanceCall(k)}) <= 1
  /\ \A k \in 1..Len(calls) :
       IsBalanceCall(k) =>
         /\ k > 1
         /\ IsTransferCall(k - 1)
         /\ calls[k - 1].outcome = "parsed"
         /\ workingEndpoint # JNull
         /\ calls[k].url.host = workingEndpoint.host
         /\ calls[k].url.host = calls[k - 1].url.host
         /\ calls[k].url.address = address.v
  /\ (pc \in {"balanceFetching", "balanceReading", "shape", "catch"}
        \/ (Done /\ response.report \in {"normal", "topLevel"})) =>
       \E k \in 1..Len(calls) : IsBalanceCall(k)

\* C7 witness: a balance call went to the second host after the upstream body
\* had status "0".
C7_Witness ==
  /\ Done
  /\ data.t = "obj"
  /\ data.status = JStr(<<"0">>)
  /\ Len(calls) = 3
  /\ IsBalanceCall(3)
  /\ calls[3].url.host = "api-bsc.etherscan.io"

\* C8: every cancellation timer is cleared when its call completes, by a
\* response or by a rejection, so that none is still pending when the
\* handler returns.
C8_TimersCleared ==
  /\ \A k \in 1..Len(calls) : calls[k].outcome # "pending" => timers[k].state # "armed"
  /\ Done => \A k \in 1..Len(timers) : timers[k].state # "armed"

\* C9: whenever an endpoint yielded a parsed body (here: an object), the
\* report is the normal report and its apiStatus carries the upstream's
\* status, message and result, also when the status is not "1" or the result
\* is no list.
C9_ApiStatusFromUpstream ==
  (Done /\ SomeParsed /\ data.t = "obj") =>
    /\ response.report = "normal"
    /\ Truthy(data.status) => response.apiStatus.status = data.status
    /\ Truthy(data.message) => response.apiStatus.message = data.message
    /\ Truthy(data.result) => response.apiStatus.result = data.result
    /\ (data.status # JStr(<<"1">>) \/ data.result.t # "list") => response.confirmed = FALSE

\* C10: the all-endpoints-failed report is returned only if every endpoint
\* failed; if some endpoint returned a body that parsed, whatever its value,
\* a working endpoint is remembered and that report is not returned.
C10_AllFailedOnlyIfAllFailed ==
  (Done /\ SomeParsed) => (workingEndpoint # JNull /\ response.report # "allFailed")
====
